---- MODULE Spec2Model ----
(***************************************************************************)
(* Model of web_music_quiz.py: the answer-scoring function                 *)
(* WebMusicQuiz.calculate_score, the /api/submit-guess handler that calls  *)
(* it, and the session-gated Spotify routes.                               *)
(*                                                                         *)
(* A Python str is a sequence of character tokens.  A token is a one-      *)
(* character TLA+ string, except "dotless_i", which stands for U+0131      *)
(* (LATIN SMALL LETTER DOTLESS I).  Python None / JSON null is the value   *)
(* None below, and a key that is absent from a JSON object is Missing;     *)
(* neither is a sequence of character tokens.                              *)
(***************************************************************************)
EXTENDS Integers, Sequences, FiniteSets, TLC

VARIABLES
    pc,        \* which program step comes next
    args,      \* the arguments of the calculate_score call
    result,    \* the outcome of the calculate_score call
    request,   \* the HTTP request being / last handled
    response,  \* the HTTP response to it
    session,   \* the Flask session's Spotify token cache
    player,    \* the playback state on the Spotify side
    calls      \* Spotify Web API calls made while handling the last request

vars == <<pc, args, result, request, response, session, player, calls>>

\* ------------------------------------------------------------------ bounds

\* longest string of the free-form alphabet drawn as an input
MaxShortLen == 2
\* longest string of the a^i b^j family drawn as an input (similarities of
\* exactly 70 and 90 need two strings whose lengths add up to 20)
MaxTierLen == 10
\* number of tracks in the play queue of the Spotify player
NumTracks == 2

\* ------------------------------------------------------------ Python values

None == <<"None">>
Missing == <<"Missing">>

IsStr(v) == v # None /\ v # Missing

DotlessI == "dotless_i"

UpperAZ == <<"A","B","C","D","E","F","G","H","I","J","K","L","M",
             "N","O","P","Q","R","S","T","U","V","W","X","Y","Z">>
LowerAZ == <<"a","b","c","d","e","f","g","h","i","j","k","l","m",
             "n","o","p","q","r","s","t","u","v","w","x","y","z">>

Whitespace == {" ", "\t"}

\* str.lower() on one character: A-Z map to a-z; every other token of the
\* model (a-z, whitespace, U+0131) is its own lowercase form.
LowerTable == [c \in {UpperAZ[k] : k \in 1..26} |-> LowerAZ[CHOOSE k \in 1..26 : UpperAZ[k] = c]]

lower_char(c) == IF c \in DOMAIN LowerTable THEN LowerTable[c] ELSE c

\* a lower() that leaves the text as it is
lower_identity(s) == s

\* str.lower()
lower(s) == [k \in 1..Len(s) |-> lower_char(s[k])]

\* str.strip(): drop leading and trailing whitespace
RECURSIVE lstrip(_)
lstrip(s) ==
    IF s # <<>> /\ Head(s) \in Whitespace THEN lstrip(Tail(s)) ELSE s

RECURSIVE rstrip(_)
rstrip(s) ==
    IF s # <<>> /\ s[Len(s)] \in Whitespace
    THEN rstrip(SubSeq(s, 1, Len(s) - 1))
    ELSE s

\* a strip() that trims the front only
strip_left_only(s) == lstrip(s)


strip(s) == rstrip(lstrip(s))

\* ------------------------------------------------------- rapidfuzz fuzz.ratio

Max(x, y) == IF x >= y THEN x ELSE y

RECURSIVE GCD(_, _)
GCD(x, y) == IF y = 0 THEN x ELSE GCD(y, x % y)

\* One row of the longest-common-subsequence table.  prev[j + 1] is the LCS
\* length of a[1..i-1] and b[1..j]; the value is the same row for a[1..i],
\* where ch = a[i].  acc holds the columns 0..j-1 already computed.  (The
\* tests on Len only fix the order of evaluation: a row is computed before
\* the next one is started.)
RECURSIVE lcs_row(_, _, _, _, _)
lcs_row(prev, ch, b, j, acc) ==
    IF j > Len(b) THEN acc
    ELSE LET cell == IF ch = b[j] THEN prev[j] + 1 ELSE Max(prev[j + 1], acc[j])
             next == Append(acc, cell)
         IN  IF Len(next) = j + 1 THEN lcs_row(prev, ch, b, j + 1, next) ELSE next

RECURSIVE lcs_rows(_, _, _, _)
lcs_rows(a, b, i, prev) ==
    IF i > Len(a) THEN prev
    ELSE LET row == lcs_row(prev, a[i], b, 1, <<0>>)
         IN  IF Len(row) = Len(b) + 1 THEN lcs_rows(a, b, i + 1, row) ELSE row

\* length of the longest common subsequence of a and b
LCS(a, b) == lcs_rows(a, b, 1, [j \in 1..(Len(b) + 1) |-> 0])[Len(b) + 1]

\* Indel distance: insertions and deletions turning a into b
indel_distance(a, b) == Len(a) + Len(b) - 2 * LCS(a, b)

\* a ratio that gives two empty strings 0 instead of 100
fuzz_ratio_empty_zero(a, b) ==
    LET n == Len(a) + Len(b)
        p == 100 * (n - indel_distance(a, b))
        g == GCD(p, n)
    IN  IF n = 0 \/ p = 0 THEN <<0, 1>> ELSE <<p \div g, n \div g>>

\* fuzz.ratio(a, b) = 100 * (1 - indel_distance / (len(a) + len(b))), and 100
\* for two empty strings.  The value is kept exact, as the reduced fraction
\* <<p, q>> = p / q.
fuzz_ratio(a, b) ==
    LET n == Len(a) + Len(b)
        p == 100 * (n - indel_distance(a, b))
        g == GCD(p, n)
    IN  IF n = 0 THEN <<100, 1>>
        ELSE IF p = 0 THEN <<0, 1>>
        ELSE <<p \div g, n \div g>>

\* similarity >= t, for an integer t
AtLeast(sim, t) == sim[1] >= t * sim[2]

\* ------------------------------------------------------------ calculate_score

\* title tiers whose top tier is worth the whole 100 points
title_tier_top_100(title_similarity) ==
    IF AtLeast(title_similarity, 90) THEN 100
    ELSE IF AtLeast(title_similarity, 70) THEN 50
    ELSE IF AtLeast(title_similarity, 50) THEN 30
    ELSE 0

\* title tiers with the points of the two upper tiers exchanged
title_tier_swapped(title_similarity) ==
    IF AtLeast(title_similarity, 90) THEN 50
    ELSE IF AtLeast(title_similarity, 70) THEN 70
    ELSE IF AtLeast(title_similarity, 50) THEN 30
    ELSE 0


title_tier(title_similarity) ==
    IF AtLeast(title_similarity, 90) THEN 70
    ELSE IF AtLeast(title_similarity, 70) THEN 50
    ELSE IF AtLeast(title_similarity, 50) THEN 30
    ELSE 0

\* artist tiers with exclusive ( > ) thresholds
artist_tier_exclusive(artist_similarity) ==
    IF artist_similarity[1] > 90 * artist_similarity[2] THEN 30
    ELSE IF artist_similarity[1] > 70 * artist_similarity[2] THEN 20
    ELSE IF artist_similarity[1] > 50 * artist_similarity[2] THEN 10
    ELSE 0


artist_tier(artist_similarity) ==
    IF AtLeast(artist_similarity, 90) THEN 30
    ELSE IF AtLeast(artist_similarity, 70) THEN 20
    ELSE IF AtLeast(artist_similarity, 50) THEN 10
    ELSE 0

title_similarity_of(user_title, correct_title) ==
    fuzz_ratio(strip(lower(user_title)), strip(lower(correct_title)))

artist_similarity_of(user_artist, correct_artist) ==
    fuzz_ratio(strip(lower(user_artist)), strip(lower(correct_artist)))

\* a calculate_score whose artist similarity compares the user's title with
\* the correct artist
calculate_score_crossed(user_title, user_artist, correct_title, correct_artist, response_time) ==
    IF ~ (IsStr(user_title) /\ IsStr(correct_title)
          /\ IsStr(user_artist) /\ IsStr(correct_artist))
    THEN [status |-> "raised", exception |-> "AttributeError"]
    ELSE
      LET title_similarity == title_similarity_of(user_title, correct_title)
          artist_similarity == artist_similarity_of(user_title, correct_artist)
          title_points == title_tier(title_similarity)
          artist_points == artist_tier(artist_similarity)
      IN  [status |-> "returned",
           value |-> [total_points |-> title_points + artist_points,
                      title_points |-> title_points,
                      artist_points |-> artist_points,
                      response_time |-> response_time,
                      time_message |-> <<>>,
                      title_similarity |-> title_similarity,
                      artist_similarity |-> artist_similarity]]

\* WebMusicQuiz.calculate_score.  .lower() on None raises AttributeError.
calculate_score(user_title, user_artist, correct_title, correct_artist, response_time) ==
    IF ~ (IsStr(user_title) /\ IsStr(correct_title)
          /\ IsStr(user_artist) /\ IsStr(correct_artist))
    THEN [status |-> "raised", exception |-> "AttributeError"]
    ELSE
      LET title_similarity == title_similarity_of(user_title, correct_title)
          artist_similarity == artist_similarity_of(user_artist, correct_artist)
          title_points == title_tier(title_similarity)
          artist_points == artist_tier(artist_similarity)
      IN  [status |-> "returned",
           value |-> [total_points |-> title_points + artist_points,
                      title_points |-> title_points,
                      artist_points |-> artist_points,
                      response_time |-> response_time,
                      time_message |-> <<>>,
                      title_similarity |-> title_similarity,
                      artist_similarity |-> artist_similarity]]

\* ------------------------------------------------- inputs of calculate_score

\* all strings over alphabet of length at most n
StringsUpTo(alphabet, n) == UNION {[1..k -> alphabet] : k \in 0..n}

\* n copies of the character c
Repeat(c, n) == [k \in 1..n |-> c]

ShortAlphabet == {"I", DotlessI, " "}
ShortStrings == StringsUpTo(ShortAlphabet, MaxShortLen)
OneCharValues == StringsUpTo(ShortAlphabet, 1) \cup {None}

\* a^n, the correct answers of the tier family
TierAnswers == {Repeat("a", n) : n \in 0..MaxTierLen}
\* a^i b^j, the guesses of the tier family
TierGuesses ==
    {Repeat("a", p[1]) \o Repeat("b", p[2]) :
        p \in {q \in (0..MaxTierLen) \X (0..MaxTierLen) : q[1] + q[2] <= MaxTierLen}}

\* the other field's guess and answer while one field runs over the tier family
OtherGuesses == {<<>>, <<" ", "I">>}
OtherAnswers == {<<"i">>}

BohemianRhapsody ==
    <<"B","o","h","e","m","i","a","n"," ","R","h","a","p","s","o","d","y">>
bohemian_rapsody ==
    <<"b","o","h","e","m","i","a","n"," ","r","a","p","s","o","d","y">>
Queen == <<"Q","u","e","e","n">>
queen == <<"q","u","e","e","n">>

\* response_time: None, or a number of seconds
ResponseTimes == {None, <<"seconds", 2>>}

ScoreArgs(ut, ua, ct, ca, rt) ==
    [user_title |-> ut, user_artist |-> ua, correct_title |-> ct, correct_artist |-> ca, response_time |-> rt]

\* Family 1: all four texts from the one-character strings and None.
\* Families 2-3: one field (title or artist) free over ShortStrings, the other
\* from OtherGuesses / OtherAnswers.  Families 4-5: one field over the tier
\* family.  Family 6: the "Bohemian Rhapsody" scenario.
ScoreInputs ==
    {ScoreArgs(ut, ua, ct, ca, rt) :
        ut \in OneCharValues, ua \in OneCharValues, ct \in OneCharValues, ca \in OneCharValues, rt \in ResponseTimes}
    \cup
    {ScoreArgs(ut, ua, ct, ca, None) :
        ut \in ShortStrings, ua \in OtherGuesses, ct \in ShortStrings, ca \in OtherAnswers}
    \cup
    {ScoreArgs(ut, ua, ct, ca, None) :
        ut \in OtherGuesses, ua \in ShortStrings, ct \in OtherAnswers, ca \in ShortStrings}
    \cup
    {ScoreArgs(ut, ua, ct, ca, None) :
        ut \in TierGuesses, ua \in OtherGuesses, ct \in TierAnswers, ca \in OtherAnswers}
    \cup
    {ScoreArgs(ut, ua, ct, ca, None) :
        ut \in OtherGuesses, ua \in TierGuesses, ct \in OtherAnswers, ca \in TierAnswers}
    \cup
    {ScoreArgs(ut, ua, ct, ca, rt) :
        ut \in {bohemian_rapsody, BohemianRhapsody}, ua \in {queen, Queen},
        ct \in {BohemianRhapsody}, ca \in {Queen}, rt \in ResponseTimes}

\* the call that the arguments a stand for
Score(a) ==
    calculate_score(a.user_title, a.user_artist, a.correct_title, a.correct_artist, a.response_time)

NotCalled == [status |-> "not_called"]
NoRequest == [route |-> "none"]
NoResponse == [kind |-> "none"]

\* A direct call of quiz.calculate_score with arguments drawn from ScoreInputs.
ScoreInit ==
    /\ pc = "call"
    /\ args \in ScoreInputs
    /\ result = NotCalled
    /\ request = NoRequest
    /\ response = NoResponse
    /\ session = [token |-> "none"]
    /\ player = [is_playing |-> FALSE, item |-> "no_playback", track |-> 1]
    /\ calls = <<>>

CalculateScore ==
    /\ pc = "call"
    /\ result' = calculate_score(args.user_title, args.user_artist, args.correct_title, args.correct_artist, args.response_time)
    /\ pc' = "done"
    /\ UNCHANGED <<args, request, response, session, player, calls>>

ScoreNext == CalculateScore

SpecScore == ScoreInit /\ [][ScoreNext]_vars

\* ------------------------------------------------------- /api/submit-guess

\* longest text of a field of a submitted guess
MaxFieldLen == 2

FieldAlphabet == {"I", " "}
\* what a key of the posted JSON object can hold: nothing (the key is
\* absent), null, or a text
FieldValues == {Missing, None} \cup StringsUpTo(FieldAlphabet, MaxFieldLen)

\* The posted JSON object after "request.json or {}": a null or empty body is
\* the object with every key absent.
GuessBodies ==
    [title : FieldValues, artist : FieldValues, correct_title : FieldValues,
     correct_artist : FieldValues, response_time : {Missing, <<"seconds", 2>>}]

NoArgs == [called |-> FALSE]

ServerError(exception) == [kind |-> "error", status |-> 500, exception |-> exception]

\* dict.get(key, default)
dict_get(data, key, default) == IF data[key] = Missing THEN default ELSE data[key]

\* The arguments submit_guess passes to calculate_score, or "raised" when
\* .strip() is called on None, or "rejected" when a guess text is empty.
guess_args(data) ==
    LET title == dict_get(data, "title", <<>>)
        artist == dict_get(data, "artist", <<>>)
    IN  IF title = None \/ artist = None THEN [outcome |-> "raised"]
        ELSE LET user_title == strip(title)
                 user_artist == strip(artist)
             IN  IF user_title = <<>> \/ user_artist = <<>> THEN [outcome |-> "rejected"]
                 ELSE [outcome |-> "score",
                       args |-> ScoreArgs(user_title, user_artist,
                                          dict_get(data, "correct_title", <<>>),
                                          dict_get(data, "correct_artist", <<>>),
                                          dict_get(data, "response_time", None))]

\* the response of submit_guess to the posted object data
guess_response(data) ==
    LET g == guess_args(data)
    IN  IF g.outcome = "raised" THEN ServerError("AttributeError")
        ELSE IF g.outcome = "rejected"
        THEN [kind |-> "json", success |-> FALSE, message |-> "Please provide both title and artist"]
        ELSE LET score == Score(g.args)
             IN  IF score.status = "raised" THEN ServerError(score.exception)
                 ELSE [kind |-> "json", success |-> TRUE, score |-> score.value,
                       user_answer |-> [title |-> g.args.user_title, artist |-> g.args.user_artist],
                       correct_answer |-> [title |-> g.args.correct_title, artist |-> g.args.correct_artist]]

\* A POST to /api/submit-guess with a body drawn from GuessBodies.
GuessInit ==
    /\ pc = "handle"
    /\ request \in {[route |-> "/api/submit-guess", json |-> data] : data \in GuessBodies}
    /\ response = NoResponse
    /\ args = NoArgs
    /\ result = NotCalled
    /\ session = [token |-> "none"]
    /\ player = [is_playing |-> FALSE, item |-> "no_playback", track |-> 1]
    /\ calls = <<>>

\* the handler; args and result record the call of calculate_score it makes
submit_guess ==
    /\ pc = "handle"
    /\ request.route = "/api/submit-guess"
    /\ LET g == guess_args(request.json)
       IN  /\ args' = IF g.outcome = "score" THEN g.args ELSE NoArgs
           /\ result' = IF g.outcome = "score" THEN Score(g.args) ELSE NotCalled
    /\ response' = guess_response(request.json)
    /\ pc' = "idle"
    /\ UNCHANGED <<request, session, player, calls>>

GuessNext == submit_guess

SpecGuess == GuessInit /\ [][GuessNext]_vars

\* C9 as stated: a guess whose title or artist is missing or empty after
\* trimming is answered success = false, without a score and without a call
\* of calculate_score; every other guess is answered success = true with the
\* score calculate_score gives the trimmed guess and the submitted answer;
\* calculate_score is never called with an empty user title or artist.
C9_ValidateThenScore ==
    (pc = "idle" /\ request.route = "/api/submit-guess") =>
        LET data == request.json
            absent(v) == v = Missing \/ v = None
            empty(v) == absent(v) \/ strip(v) = <<>>
            text(v) == IF absent(v) THEN <<>> ELSE v
        IN  /\ (empty(data.title) \/ empty(data.artist)) =>
                /\ response.kind = "json" /\ response.success = FALSE
                /\ "score" \notin DOMAIN response
                /\ result = NotCalled
            /\ ~ (empty(data.title) \/ empty(data.artist)) =>
                /\ response.kind = "json" /\ response.success = TRUE
                /\ result.status = "returned"
                /\ response.score = result.value
                /\ args = ScoreArgs(strip(data.title), strip(data.artist), text(data.correct_title),
                                    text(data.correct_artist),
                                    IF data.response_time = Missing THEN None ELSE data.response_time)
                /\ response.score = Score(args).value
            /\ result # NotCalled => (args.user_title # <<>> /\ args.user_artist # <<>>)

\* ------------------------------------------------- session-gated routes

\* a query parameter: absent, empty, or a non-empty text
ParamValues == {Missing} \cup StringsUpTo({"x"}, 1)

\* Python truthiness of what request.args.get returns
Truthy(v) == v # Missing /\ v # None /\ v # <<>>

Requests ==
    {[route |-> r] : r \in {"/", "/login", "/auth-url", "/api/current-track", "/api/skip-track"}}
    \cup {[route |-> "/callback", error |-> e, code |-> c] : e \in ParamValues, c \in ParamValues}

\* what Spotify's player can be doing: no playback at all (current_playback()
\* gives None), playback without an item, or playback of a track / an episode
PlayerStates ==
    [item : {"no_playback", "no_item", "track", "episode"}, is_playing : BOOLEAN, track : 1..NumTracks]

Redirect(to) == [kind |-> "redirect", status |-> 302, to |-> to]
Page(template) == [kind |-> "html", status |-> 200, template |-> template]
Text(status, body) == [kind |-> "text", status |-> status, body |-> body]

\* a get_cached_token() that hands out a token to a session holding none
get_cached_token_unchecked(tok) ==
    IF tok = "expired"
    THEN {[got |-> "token", token |-> "valid"], [got |-> "raised", token |-> "expired"]}
    ELSE {[got |-> "token", token |-> tok]}

\* oauth.get_cached_token() on a session whose cache holds tok: no token gives
\* None; a valid token is returned; an expired one is refreshed and stored, or
\* the refresh fails and raises.
get_cached_token(tok) ==
    IF tok = "none" THEN {[got |-> "none", token |-> "none"]}
    ELSE IF tok = "valid" THEN {[got |-> "token", token |-> "valid"]}
    ELSE {[got |-> "token", token |-> "valid"], [got |-> "raised", token |-> "expired"]}

\* the None of get_currently_playing (a record, so that it compares with the
\* track dictionaries)
NoTrack == [id |-> "None"]

\* WebMusicQuiz.get_currently_playing with a Spotify client: the track, or
\* None; api_ok is whether current_playback() answered rather than raised.
get_currently_playing(p, api_ok) ==
    IF ~ api_ok THEN NoTrack
    ELSE IF p.item = "no_playback" \/ ~ p.is_playing THEN NoTrack
    ELSE IF p.item # "track" THEN NoTrack
    ELSE [id |-> <<"track", p.track>>]

\* the player after a successful next_track()
next_track(p) == [p EXCEPT !.track = (p.track % NumTracks) + 1, !.is_playing = TRUE]

Init ==
    /\ pc = "idle"
    /\ request = NoRequest
    /\ response = NoResponse
    /\ session = [token |-> "none"]
    /\ player \in PlayerStates
    /\ calls = <<>>
    /\ args = NoArgs
    /\ result = NotCalled

\* a request of the session's browser arrives
Receive ==
    /\ pc = "idle"
    /\ request' \in Requests
    /\ response' = NoResponse
    /\ calls' = <<>>
    /\ pc' = "handle"
    /\ UNCHANGED <<session, player, args, result>>

Handling(route) == pc = "handle" /\ request.route = route

Respond(r) == response' = r /\ pc' = "idle" /\ UNCHANGED <<request, args, result>>

index ==
    /\ Handling("/")
    /\ \E t \in get_cached_token(session.token) :
        /\ session' = [session EXCEPT !.token = t.token]
        /\ Respond(IF t.got = "raised" THEN ServerError("SpotifyOauthError")
                   ELSE IF t.got = "none" THEN Redirect("login")
                   ELSE Page("updated.html"))
    /\ UNCHANGED <<player, calls>>

login ==
    /\ Handling("/login")
    /\ Respond(Redirect("authorize_url"))
    /\ UNCHANGED <<session, player, calls>>

auth_url ==
    /\ Handling("/auth-url")
    /\ Respond(Text(200, "authorize_url"))
    /\ UNCHANGED <<session, player, calls>>

\* exchanged is whether Spotify accepts the code; get_access_token raises
\* when it does not
callback ==
    /\ Handling("/callback")
    /\ IF Truthy(request.error)
       THEN Respond(Text(400, "Spotify auth error")) /\ UNCHANGED session
       ELSE IF ~ Truthy(request.code)
       THEN Respond(Text(400, "Missing ?code")) /\ UNCHANGED session
       ELSE \E exchanged \in BOOLEAN :
            IF exchanged
            THEN session' = [session EXCEPT !.token = "valid"] /\ Respond(Redirect("index"))
            ELSE UNCHANGED session /\ Respond(ServerError("SpotifyOauthError"))
    /\ UNCHANGED <<player, calls>>

get_current_track ==
    /\ Handling("/api/current-track")
    /\ \E t \in get_cached_token(session.token), api_ok \in BOOLEAN :
        /\ session' = [session EXCEPT !.token = t.token]
        /\ IF t.got = "raised"
           THEN Respond(ServerError("SpotifyOauthError")) /\ UNCHANGED calls
           ELSE IF t.got = "none"
           THEN Respond(Redirect("login")) /\ UNCHANGED calls
           ELSE LET track == get_currently_playing(player, api_ok)
                IN  /\ calls' = <<"current_playback">>
                    /\ Respond(IF track # NoTrack
                               THEN [kind |-> "json", success |-> TRUE, track |-> track]
                               ELSE [kind |-> "json", success |-> FALSE,
                                     message |-> "No track currently playing"])
    /\ UNCHANGED player

\* skipped is whether next_track() answered rather than raised; without
\* playback it raises
skip_track ==
    /\ Handling("/api/skip-track")
    /\ \E t \in get_cached_token(session.token), skipped \in BOOLEAN, api_ok \in BOOLEAN :
        /\ session' = [session EXCEPT !.token = t.token]
        /\ IF t.got = "raised"
           THEN Respond(ServerError("SpotifyOauthError")) /\ UNCHANGED <<calls, player>>
           ELSE IF t.got = "none"
           THEN Respond(Redirect("login")) /\ UNCHANGED <<calls, player>>
           ELSE IF ~ skipped \/ player.item = "no_playback"
           THEN /\ calls' = <<"next_track">>
                /\ UNCHANGED player
                /\ Respond([kind |-> "json", success |-> FALSE,
                            message |-> "Failed to skip track. Make sure Spotify is playing music."])
           ELSE LET track == get_currently_playing(next_track(player), api_ok)
                IN  /\ calls' = <<"next_track", "current_playback">>
                    /\ player' = next_track(player)
                    /\ Respond(IF track # NoTrack
                               THEN [kind |-> "json", success |-> TRUE,
                                     message |-> "Skipped to next track", track |-> track]
                               ELSE [kind |-> "json", success |-> TRUE,
                                     message |-> "Skipped track, but no new track detected yet"])

\* time passes: the cached access token expires
TokenExpires ==
    /\ session.token = "valid"
    /\ session' = [session EXCEPT !.token = "expired"]
    /\ UNCHANGED <<pc, request, response, player, calls, args, result>>

\* the listener pauses, resumes or changes what is played
PlayerChanges ==
    /\ player' \in PlayerStates \ {player}
    /\ UNCHANGED <<pc, request, response, session, calls, args, result>>

Next ==
    \/ Receive
    \/ index
    \/ login
    \/ auth_url
    \/ callback
    \/ get_current_track
    \/ skip_track
    \/ TokenExpires
    \/ PlayerChanges

Spec == Init /\ [][Next]_vars

\* a step in which a handler answers the request it was given
Answered == pc = "handle" /\ pc' = "idle"

GatedRoutes == {"/", "/api/current-track", "/api/skip-track"}

\* C10 as stated: a playback call is made only while the session holds a
\* token; a token enters the session only through a /callback that carries a
\* code and no error parameter; without a token the gated routes redirect to
\* login and call nothing on Spotify; a /callback with an error parameter or
\* without a code answers 400 and leaves the session unchanged.
C10_AuthGating ==
    [][/\ (Answered /\ calls' # <<>>) => session.token # "none"
       /\ (session.token = "none" /\ session'.token # "none") =>
            /\ Answered /\ request.route = "/callback"
            /\ request.code # Missing /\ request.error = Missing
       /\ (Answered /\ session.token = "none" /\ request.route \in GatedRoutes) =>
            /\ response' = Redirect("login") /\ calls' = <<>>
       /\ (Answered /\ request.route = "/callback"
             /\ (request.error # Missing \/ request.code = Missing)) =>
            /\ response'.status = 400 /\ session' = session
      ]_vars

\* C10 amended: as C10, with "carries a code and no error parameter" read as
\* "carries a non-empty code and no non-empty error parameter", and "with an
\* error parameter or without a code" as "with a non-empty error parameter or
\* without a non-empty code".
C10_AuthGatingNonEmpty ==
    [][/\ (Answered /\ calls' # <<>>) => session.token # "none"
       /\ (session.token = "none" /\ session'.token # "none") =>
            /\ Answered /\ request.route = "/callback"
            /\ Truthy(request.code) /\ ~ Truthy(request.error)
       /\ (Answered /\ session.token = "none" /\ request.route \in GatedRoutes) =>
            /\ response' = Redirect("login") /\ calls' = <<>>
       /\ (Answered /\ request.route = "/callback"
             /\ (Truthy(request.error) \/ ~ Truthy(request.code))) =>
            /\ response'.status = 400 /\ session' = session
      ]_vars

\* a session with a token whose skip request reached Spotify twice
C10_Witness ==
    /\ pc = "idle"
    /\ request.route = "/api/skip-track"
    /\ session.token = "valid"
    /\ calls = <<"next_track", "current_playback">>

\* ------------------------------------------ properties of calculate_score

AllStrings(a) ==
    IsStr(a.user_title) /\ IsStr(a.user_artist) /\ IsStr(a.correct_title) /\ IsStr(a.correct_artist)

\* the direct call has returned a score
Scored == pc = "done" /\ result.status = "returned"

\* the normalisation calculate_score applies to each text
Normal(s) == strip(lower(s))

\* C1: every call with string inputs returns a result whose total_points is
\* title_points + artist_points, with title_points in {0,30,50,70},
\* artist_points in {0,10,20,30} and total_points a multiple of 10 in 0..100.
C1_PointsInvariant ==
    (pc = "done" /\ AllStrings(args)) =>
        /\ result.status = "returned"
        /\ result.value.total_points = result.value.title_points + result.value.artist_points
        /\ result.value.title_points \in {0, 30, 50, 70}
        /\ result.value.artist_points \in {0, 10, 20, 30}
        /\ result.value.total_points \in {10 * k : k \in 0..10}
        /\ 0 <= result.value.total_points /\ result.value.total_points <= 100

\* a call that earned 70 for the title and 10 for the artist
C1_Witness ==
    /\ Scored
    /\ result.value.title_points = 70
    /\ result.value.artist_points = 10
    /\ result.value.total_points = 80

\* One row of the Levenshtein table (insert, delete, substitute: cost 1 each).
RECURSIVE lev_row(_, _, _, _, _)
lev_row(prev, ch, b, j, acc) ==
    IF j > Len(b) THEN acc
    ELSE LET sub == prev[j] + (IF ch = b[j] THEN 0 ELSE 1)
             del == prev[j + 1] + 1
             ins == acc[j] + 1
             cell == IF sub <= del /\ sub <= ins THEN sub ELSE IF del <= ins THEN del ELSE ins
             next == Append(acc, cell)
         IN  IF Len(next) = j + 1 THEN lev_row(prev, ch, b, j + 1, next) ELSE next

RECURSIVE lev_rows(_, _, _, _)
lev_rows(a, b, i, prev) ==
    IF i > Len(a) THEN prev
    ELSE LET row == lev_row(prev, a[i], b, 1, <<i>>)
         IN  IF Len(row) = Len(b) + 1 THEN lev_rows(a, b, i + 1, row) ELSE row

\* the number of character edits (insertions, deletions, substitutions)
\* that turn a into b
levenshtein(a, b) == lev_rows(a, b, 1, [j \in 1..(Len(b) + 1) |-> j - 1])[Len(b) + 1]

\* the other title guesses the guess g is compared with: those of its family
GuessesLike(g) == IF g \in TierGuesses /\ g # <<>> THEN TierGuesses ELSE ShortStrings

\* what calculate_score gives the title guess g against the title t
TitlePointsOf(g, t) == title_tier(title_similarity_of(g, t))

\* C2 as stated: for a fixed correct title, a guess with strictly fewer
\* character edits from the correct title than another guess never gets
\* fewer title points than that other guess.
C2_FewerEditsNoFewerPoints ==
    Scored =>
        \A g2 \in GuessesLike(args.user_title) :
            levenshtein(Normal(args.user_title), Normal(args.correct_title))
                < levenshtein(Normal(g2), Normal(args.correct_title))
            => result.value.title_points >= TitlePointsOf(g2, args.correct_title)

\* C2 amended: for a fixed correct title and two guesses whose normalised
\* texts have the same length, the guess that needs strictly fewer character
\* insertions and deletions to become the (normalised) correct title never
\* gets fewer title points than the other.
C2_SameLengthFewerIndels ==
    Scored =>
        \A g2 \in GuessesLike(args.user_title) :
            (/\ Len(Normal(g2)) = Len(Normal(args.user_title))
             /\ indel_distance(Normal(args.user_title), Normal(args.correct_title))
                  < indel_distance(Normal(g2), Normal(args.correct_title)))
            => result.value.title_points >= TitlePointsOf(g2, args.correct_title)

\* a scored guess that beats, in points, a guess of the same length that
\* needs more insertions and deletions
C2_Witness ==
    /\ Scored
    /\ \E g2 \in GuessesLike(args.user_title) :
        /\ Len(Normal(g2)) = Len(Normal(args.user_title))
        /\ indel_distance(Normal(args.user_title), Normal(args.correct_title))
             < indel_distance(Normal(g2), Normal(args.correct_title))
        /\ result.value.title_points > TitlePointsOf(g2, args.correct_title)
        /\ TitlePointsOf(g2, args.correct_title) > 0

\* the arguments a with None replaced by the empty string
NoneAsEmpty(a) ==
    [f \in DOMAIN a |-> IF f # "response_time" /\ a[f] = None THEN <<>> ELSE a[f]]

\* C3 as stated: calculate_score returns a result for every combination of
\* strings, empty strings and None, and scores None as the empty string.
C3_NoneScoredAsEmpty ==
    pc = "done" => (result.status = "returned" /\ result = Score(NoneAsEmpty(args)))

\* C4: per field, similarity >= 90 gives 70 (title) / 30 (artist) points,
\* >= 70 and < 90 gives 50 / 20, >= 50 and < 70 gives 30 / 10, < 50 gives 0.
C4_Tiering ==
    Scored =>
        LET ts == result.value.title_similarity
            as == result.value.artist_similarity
            tp == result.value.title_points
            ap == result.value.artist_points
        IN  /\ ts[1] >= 90 * ts[2] => tp = 70
            /\ (ts[1] >= 70 * ts[2] /\ ts[1] < 90 * ts[2]) => tp = 50
            /\ (ts[1] >= 50 * ts[2] /\ ts[1] < 70 * ts[2]) => tp = 30
            /\ ts[1] < 50 * ts[2] => tp = 0
            /\ as[1] >= 90 * as[2] => ap = 30
            /\ (as[1] >= 70 * as[2] /\ as[1] < 90 * as[2]) => ap = 20
            /\ (as[1] >= 50 * as[2] /\ as[1] < 70 * as[2]) => ap = 10
            /\ as[1] < 50 * as[2] => ap = 0

\* a title similarity of exactly 90 (the top tier's inclusive bound)
C4_Witness ==
    /\ Scored
    /\ result.value.title_similarity = <<90, 1>>
    /\ result.value.title_points = 70

\* str.swapcase() on one character: a-z and A-Z swap, and U+0131 becomes "I"
swapcase_char(c) ==
    IF c = DotlessI THEN "I"
    ELSE IF \E k \in 1..26 : UpperAZ[k] = c THEN lower_char(c)
    ELSE IF \E k \in 1..26 : LowerAZ[k] = c THEN UpperAZ[CHOOSE k \in 1..26 : LowerAZ[k] = c]
    ELSE c

IsAsciiLetter(c) == \E k \in 1..26 : UpperAZ[k] = c \/ LowerAZ[k] = c

\* s with the letter case changed at one position, or at all positions
CaseChanges(s) ==
    {[s EXCEPT ![k] = swapcase_char(s[k])] : k \in 1..Len(s)}
    \cup {[k \in 1..Len(s) |-> swapcase_char(s[k])]}

\* the same, changing ASCII letters only
AsciiCaseChanges(s) ==
    {[s EXCEPT ![k] = swapcase_char(s[k])] : k \in {i \in 1..Len(s) : IsAsciiLetter(s[i])}}
    \cup {[k \in 1..Len(s) |-> IF IsAsciiLetter(s[k]) THEN swapcase_char(s[k]) ELSE s[k]]}

\* s with whitespace added in front or at the end
Padded(s) == {<<w>> \o s : w \in Whitespace} \cup {s \o <<w>> : w \in Whitespace}

TextFields == {"user_title", "user_artist", "correct_title", "correct_artist"}

\* C5 as stated: changing the letter case of any of the four texts, or adding
\* leading / trailing whitespace to it, leaves every field of the result
\* unchanged.
C5_CaseWhitespaceInsensitive ==
    Scored =>
        \A f \in TextFields :
            \A v \in CaseChanges(args[f]) \cup Padded(args[f]) :
                Score([args EXCEPT ![f] = v]) = result

\* C5 amended: changing the case of ASCII letters (a-z, A-Z) of any of the
\* four texts, or adding leading / trailing whitespace to it, leaves every
\* field of the result unchanged.
C5_AsciiCaseWhitespaceInsensitive ==
    Scored =>
        \A f \in TextFields :
            \A v \in AsciiCaseChanges(args[f]) \cup Padded(args[f]) :
                Score([args EXCEPT ![f] = v]) = result

\* a scored guess that differs from the answer in case and whitespace only
C5_Witness ==
    /\ Scored
    /\ args.user_artist = <<" ", "I">>
    /\ args.correct_artist = <<"i">>
    /\ result.value.artist_similarity = <<100, 1>>
    /\ result.value.artist_points = 30

\* C6: a guess equal to the answer (empty strings included) has both
\* similarities 100 and total_points 100.
C6_Identity ==
    (/\ pc = "done"
     /\ AllStrings(args)
     /\ args.user_title = args.correct_title
     /\ args.user_artist = args.correct_artist)
    => /\ result.status = "returned"
       /\ result.value.title_similarity = <<100, 1>>
       /\ result.value.artist_similarity = <<100, 1>>
       /\ result.value.total_points = 100

\* the identity call with an empty title and a non-empty artist
C6_Witness ==
    /\ Scored
    /\ args.user_title = <<>> /\ args.correct_title = <<>>
    /\ args.user_artist = args.correct_artist /\ args.user_artist # <<>>
    /\ result.value.total_points = 100

\* the texts put in place of one argument to see what depends on it
Replacements == {<<>>, <<"I">>, <<DotlessI>>, <<"a", "b">>}

\* C7: changing only the artist guess or only the correct artist changes
\* neither title_points nor title_similarity; changing only a title input
\* changes neither artist_points nor artist_similarity.
C7_Independence ==
    Scored =>
        /\ \A f \in {"user_artist", "correct_artist"} : \A v \in Replacements :
            LET r == Score([args EXCEPT ![f] = v])
            IN  /\ r.value.title_points = result.value.title_points
                /\ r.value.title_similarity = result.value.title_similarity
        /\ \A f \in {"user_title", "correct_title"} : \A v \in Replacements :
            LET r == Score([args EXCEPT ![f] = v])
            IN  /\ r.value.artist_points = result.value.artist_points
                /\ r.value.artist_similarity = result.value.artist_similarity

\* a scored call whose artist points change with the artist guess while the
\* title part stays
C7_Witness ==
    /\ Scored
    /\ result.value.title_points = 50
    /\ \E v \in Replacements :
        Score([args EXCEPT !.user_artist = v]).value.artist_points # result.value.artist_points

\* C8: ("bohemian rapsody", "queen") against ("Bohemian Rhapsody", "Queen")
\* has title_similarity >= 90, title_points 70, artist_points 30, total 100.
C8_BohemianRhapsody ==
    (/\ pc = "done"
     /\ args.user_title = bohemian_rapsody /\ args.user_artist = queen
     /\ args.correct_title = BohemianRhapsody /\ args.correct_artist = Queen)
    => /\ result.status = "returned"
       /\ result.value.title_similarity[1] >= 90 * result.value.title_similarity[2]
       /\ result.value.title_points = 70
       /\ result.value.artist_points = 30
       /\ result.value.total_points = 100

\* the scenario has been scored, with a title similarity short of 100
C8_Witness ==
    /\ Scored
    /\ args.user_title = bohemian_rapsody /\ args.user_artist = queen
    /\ args.correct_title = BohemianRhapsody /\ args.correct_artist = Queen
    /\ result.value.title_similarity = <<3200, 33>>

====
